---- MODULE Spec2Model ----
(***************************************************************************)
(* Model of cupyx/scipy/fftpack/fft.py: the plan front-end get_fft_plan    *)
(* and the packed real-spectrum codec rfft / irfft.                        *)
(*                                                                         *)
(* A call is one record (call), its outcome another (ret).  Init draws the *)
(* arguments of one call; one action per public function runs the whole    *)
(* function body and leaves the outcome in ret.  Arrays are modelled along *)
(* the transform axis (one lane): every index on the other axes is         *)
(* slice(None) in the source, so all lanes are treated alike; the shape    *)
(* is kept in full.  Python's None is the empty tuple <<>> and a given     *)
(* value v is <<v>>.  Indices are 0-based as in the source: element i of   *)
(* an array is entry i+1 of its sequence.                                  *)
(***************************************************************************)
EXTENDS Integers, Sequences, FiniteSets, TLC

VARIABLES call, ret, pc, src

vars == <<call, ret, pc, src>>

\* ------------------------------------------------------------- bounds
MaxNdim == 4
MaxAxesLen == 3
MaxRank == 2
MaxLen == 4
MaxN == 5
MaxNeg == 4
OtherDim == 2

\* ------------------------------------------------------ value domains
\* real and imaginary parts the engine's half spectrum may hold
ReVals == {1, 2}
ImVals == {0, 3}
\* entries of a packed real input
XVals == {1, 2}
\* what cupy.empty may leave in a slot before it is written
JunkVals == {7, 9}
DTypes == {"float32", "float64"}

None == <<>>
Some(v) == <<v>>
Min(a, b) == IF a < b THEN a ELSE b
Max(a, b) == IF a > b THEN a ELSE b

\* ------------------------------------------------- Python primitives
\* seq[i] on a list or tuple of length len is defined for -len <= i < len
IndexInRange(i, len) == -len <= i /\ i < len

NormIndex(i, len) == IF i < 0 THEN i + len ELSE i

PySlice(start, stop, step) == [start |-> start, stop |-> stop, step |-> step]

\* the indices slice s selects from an axis of length len (step > 0)
SliceIndices(s, len) ==
    LET step == IF s.step = None THEN 1 ELSE s.step[1]
        Clamp(v) == IF v < 0 THEN Max(v + len, 0) ELSE Min(v, len)
        lo == IF s.start = None THEN 0 ELSE Clamp(s.start[1])
        hi == IF s.stop = None THEN len ELSE Clamp(s.stop[1])
        cnt == IF hi > lo THEN (hi - lo + step - 1) \div step ELSE 0
    IN  [j \in 1..cnt |-> lo + (j - 1) * step]

GetItem(arr, idx) == [j \in 1..Len(idx) |-> arr[idx[j] + 1]]

\* dst[idx] = vals broadcasts when the source has one entry along the axis
CanAssign(idx, vals) == Len(vals) = Len(idx) \/ Len(vals) = 1

Broadcast(idx, vals) ==
    IF Len(vals) = Len(idx) THEN vals ELSE [j \in 1..Len(idx) |-> vals[1]]

PosOf(idx, i) == CHOOSE j \in 1..Len(idx) : idx[j] = i

Indices(idx) == {idx[j] : j \in 1..Len(idx)}

SetItem(arr, idx, vals) ==
    LET v == Broadcast(idx, vals)
    IN  [k \in 1..Len(arr) |->
            IF (k - 1) \in Indices(idx) THEN v[PosOf(idx, k - 1)] ELSE arr[k]]

Reals(f) == [k \in 1..Len(f) |-> f[k].re]
Imags(f) == [k \in 1..Len(f) |-> f[k].im]

SetReal(arr, idx, vals) ==
    LET v == Broadcast(idx, vals)
    IN  [k \in 1..Len(arr) |->
            IF (k - 1) \in Indices(idx)
            THEN [re |-> v[PosOf(idx, k - 1)], im |-> arr[k].im]
            ELSE arr[k]]

SetImag(arr, idx, vals) ==
    LET v == Broadcast(idx, vals)
    IN  [k \in 1..Len(arr) |->
            IF (k - 1) \in Indices(idx)
            THEN [re |-> arr[k].re, im |-> v[PosOf(idx, k - 1)]]
            ELSE arr[k]]

Count(idx, i) == Cardinality({j \in 1..Len(idx) : idx[j] = i})

\* ---------------------------------------------------- codec outcomes
\* err: the failure or "none"; engine: calls made into _fft; built: the
\* output (rfft) or work (irfft) array was allocated; z: that array along
\* the axis; lens: <<destination, source>> lengths of each slice
\* assignment run; reads: the source entries the assignments read.
\* Failures of the device inside the engine are not modelled.
NoLane == <<>>

CodecRaise(err, engine, built, shape, z, lens) ==
    [err |-> err, engine |-> engine, built |-> built, shape |-> shape,
     z |-> z, f |-> NoLane, writes |-> <<>>, lens |-> lens, reads |-> {},
     dtype |-> "none"]

\* ------------------------------------------------------------- rfft
\* the engine's real-to-complex transform (_fft(..., 'R2C')): any half
\* spectrum of length flen along the axis
HalfSpectra(flen) == [1..flen -> [re : ReVals, im : ImVals]]

\* _fft rejects a requested length below 1
EngineRejectsLength(n) == n < 1

\* lines 259-263: n defaults to x.shape[axis]; shape[axis] = n
RfftResolve(c) ==
    LET ndim == Len(c.xshape)
    IN  IF ~IndexInRange(c.axis, ndim)
        THEN [err |-> "AxisOutOfRange", n |-> 0, shape |-> c.xshape]
        ELSE LET n == IF c.n = None
                      THEN c.xshape[NormIndex(c.axis, ndim) + 1]
                      ELSE c.n[1]
             IN  [err |-> "none", n |-> n,
                  shape |-> [c.xshape EXCEPT ![NormIndex(c.axis, ndim) + 1] = n]]

RfftDcSlice == PySlice(None, Some(1), None)
RfftRealDst == PySlice(Some(1), None, Some(2))
RfftRealSrc == PySlice(Some(1), None, None)
RfftImagDst == PySlice(Some(2), None, Some(2))

RfftImagSrcAll(n, flen) == PySlice(Some(1), None, None)

RfftImagSrc(n, flen) == PySlice(Some(1), Some(n - flen + 1), None)

\* lines 266-283: z = empty(shape); three slice copies from f into z
RfftPack(n, shape, f, junk) ==
    LET z0 == [i \in 1..n |-> junk]
        flen == Len(f)
        d1 == SliceIndices(RfftDcSlice, n)
        s1 == GetItem(Reals(f), SliceIndices(RfftDcSlice, flen))
        d2 == SliceIndices(RfftRealDst, n)
        s2 == GetItem(Reals(f), SliceIndices(RfftRealSrc, flen))
        d3 == SliceIndices(RfftImagDst, n)
        i3 == SliceIndices(RfftImagSrc(n, flen), flen)
        s3 == GetItem(Imags(f), i3)
        rd == {<<"re", k>> : k \in Indices(SliceIndices(RfftDcSlice, flen))
                                    \cup Indices(SliceIndices(RfftRealSrc, flen))}
                  \cup {<<"im", k>> : k \in Indices(i3)}
        l1 == <<<<Len(d1), Len(s1)>>>>
        l2 == Append(l1, <<Len(d2), Len(s2)>>)
        l3 == Append(l2, <<Len(d3), Len(s3)>>)
    IN  IF ~CanAssign(d1, s1)
        THEN [CodecRaise("BroadcastError", 1, TRUE, shape, z0, l1) EXCEPT !.f = f]
        ELSE LET z1 == SetItem(z0, d1, s1)
             IN  IF ~CanAssign(d2, s2)
                 THEN [CodecRaise("BroadcastError", 1, TRUE, shape, z1, l2)
                          EXCEPT !.f = f]
                 ELSE LET z2 == SetItem(z1, d2, s2)
                      IN  IF ~CanAssign(d3, s3)
                          THEN [CodecRaise("BroadcastError", 1, TRUE, shape, z2, l3)
                                   EXCEPT !.f = f]
                          ELSE [err |-> "none", engine |-> 1, built |-> TRUE,
                                shape |-> shape, z |-> SetItem(z2, d3, s3),
                                f |-> f,
                                writes |-> [i \in 1..n |->
                                    Count(d1, i - 1) + Count(d2, i - 1)
                                        + Count(d3, i - 1)],
                                lens |-> l3, reads |-> rd, dtype |-> "real"]

\* ------------------------------------------------------------ irfft
IrfftMNoTruncate(n, xlen) == n

\* line 305
IrfftM(n, xlen) == Min(n, xlen)

\* lines 303-308: n defaults to x.shape[axis]; m; shape[axis] = n // 2 + 1
IrfftResolve(c) ==
    LET ndim == Len(c.xshape)
    IN  IF ~IndexInRange(c.axis, ndim)
        THEN [err |-> "AxisOutOfRange", n |-> 0, m |-> 0, shape |-> c.xshape]
        ELSE LET xlen == c.xshape[NormIndex(c.axis, ndim) + 1]
                 n == IF c.n = None THEN xlen ELSE c.n[1]
             IN  [err |-> "none", n |-> n, m |-> IrfftM(n, xlen),
                  shape |-> [c.xshape EXCEPT
                                ![NormIndex(c.axis, ndim) + 1] = n \div 2 + 1]]

\* lines 309-312
IrfftDtype(xdtype) ==
    IF xdtype \in {"float16", "float32"} THEN "complex64" ELSE "complex128"

IrfftDcSlice == PySlice(None, Some(1), None)
IrfftRealSrc(m) == PySlice(Some(1), Some(m), Some(2))
IrfftImagSrc(m) == PySlice(Some(2), Some(m), Some(2))

IrfftRealDstLikeImag(m) == PySlice(Some(1), Some((m + 1) \div 2), None)

IrfftRealDst(m) == PySlice(Some(1), Some(m \div 2 + 1), None)

IrfftImagDstLikeReal(m) == PySlice(Some(1), Some(m \div 2 + 1), None)

IrfftImagDst(m) == PySlice(Some(1), Some((m + 1) \div 2), None)

\* cupy.zeros(shape, ...) of lines 310/312 along the axis
IrfftFill(zlen) == [k \in 1..zlen |-> [re |-> 0, im |-> 0]]

\* lines 309-329: z = zeros(shape); three slice copies from x into z; the
\* complex-to-real transform of z
IrfftBuild(x, n, m, shape, xdtype) ==
    LET zlen == n \div 2 + 1
        xlen == Len(x)
        z0 == IrfftFill(zlen)
        i1 == SliceIndices(IrfftDcSlice, xlen)
        d1 == SliceIndices(IrfftDcSlice, zlen)
        i2 == SliceIndices(IrfftRealSrc(m), xlen)
        d2 == SliceIndices(IrfftRealDst(m), zlen)
        i3 == SliceIndices(IrfftImagSrc(m), xlen)
        d3 == SliceIndices(IrfftImagDst(m), zlen)
        s1 == GetItem(x, i1)
        s2 == GetItem(x, i2)
        s3 == GetItem(x, i3)
        l1 == <<<<Len(d1), Len(s1)>>>>
        l2 == Append(l1, <<Len(d2), Len(s2)>>)
        l3 == Append(l2, <<Len(d3), Len(s3)>>)
    IN  IF zlen < 0
        THEN CodecRaise("NegativeDimension", 0, FALSE, shape, NoLane, <<>>)
        ELSE IF ~CanAssign(d1, s1)
        THEN CodecRaise("BroadcastError", 0, TRUE, shape, z0, l1)
        ELSE LET z1 == SetReal(z0, d1, s1)
             IN  IF ~CanAssign(d2, s2)
                 THEN CodecRaise("BroadcastError", 0, TRUE, shape, z1, l2)
                 ELSE LET z2 == SetReal(z1, d2, s2)
                      IN  IF ~CanAssign(d3, s3)
                          THEN CodecRaise("BroadcastError", 0, TRUE, shape, z2, l3)
                          ELSE LET z3 == SetImag(z2, d3, s3)
                               IN  [err |-> IF EngineRejectsLength(n)
                                            THEN "InvalidLength" ELSE "none",
                                    engine |-> 1, built |-> TRUE,
                                    shape |-> shape, z |-> z3, f |-> NoLane,
                                    writes |-> <<>>, lens |-> l3,
                                    reads |-> Indices(i1) \cup Indices(i2)
                                                \cup Indices(i3),
                                    dtype |-> IrfftDtype(xdtype)]

\* ----------------------------------------------------- get_fft_plan
MaxPlanAxes == 3

\* _convert_fft_type(a, value_type): the transform kind of a value_type
\* at the array's precision
ConvertFftType(dtype, value_type) ==
    CASE value_type = "C2C" /\ dtype = "complex64" -> "CUFFT_C2C"
      [] value_type = "C2C" /\ dtype = "complex128" -> "CUFFT_Z2Z"
      [] value_type = "R2C" /\ dtype = "complex64" -> "CUFFT_R2C"
      [] OTHER -> "CUFFT_D2Z"

\* line 28
KindRejected(c) ==
    ConvertFftType(c.dtype, c.value_type) \notin {"CUFFT_C2C", "CUFFT_Z2Z"}

\* lines 31-36
Order(c) ==
    IF c.c_contiguous THEN "C" ELSE IF c.f_contiguous THEN "F" ELSE "none"

\* line 38
MismatchBothGiven(c) ==
    c.shape # None /\ c.axes.kind # "none" /\ Len(c.shape[1]) # Len(c.axes.val)

MismatchAxesOmittedNever(c) == FALSE

\* line 40
MismatchAxesOmitted(c) ==
    c.shape # None /\ c.axes.kind = "none" /\ Len(c.shape[1]) # Len(c.ashape)

TooManyAxesInclusive(c) ==
    c.shape = None /\ c.axes.kind # "none" /\ Len(c.axes.val) >= Len(c.ashape)

\* line 42
TooManyAxes(c) ==
    c.shape = None /\ c.axes.kind # "none" /\ Len(c.axes.val) > Len(c.ashape)

\* lines 38 and 42 take len(axes) of an int
LenOfInt(c) == c.axes.kind = "int"

PlanValidationLayoutFirst(c) ==
    IF Order(c) = "none" THEN "NonContiguousInput"
    ELSE IF KindRejected(c) THEN "UnsupportedTransformKind"
    ELSE IF LenOfInt(c) THEN "TypeError"
    ELSE IF MismatchBothGiven(c) THEN "ShapeAxesMismatch"
    ELSE IF MismatchAxesOmitted(c) THEN "ShapeAxesMismatch"
    ELSE IF TooManyAxes(c) THEN "TooManyAxes"
    ELSE "none"

\* lines 27-43: the first check that raises
PlanValidation(c) ==
    IF KindRejected(c) THEN "UnsupportedTransformKind"
    ELSE IF Order(c) = "none" THEN "NonContiguousInput"
    ELSE IF LenOfInt(c) THEN "TypeError"
    ELSE IF MismatchBothGiven(c) THEN "ShapeAxesMismatch"
    ELSE IF MismatchAxesOmitted(c) THEN "ShapeAxesMismatch"
    ELSE IF TooManyAxes(c) THEN "TooManyAxes"
    ELSE "none"

Range(ndim) == [i \in 1..ndim |-> i - 1]

RECURSIVE OverwriteByPosition(_, _, _, _)
OverwriteByPosition(shp, ts, ax, j) ==
    IF j > Min(Len(ts), Len(ax)) THEN [err |-> "none", shape |-> shp]
    ELSE IF ~IndexInRange(ax[j], Len(shp))
         THEN [err |-> "IndexError", shape |-> shp]
         ELSE OverwriteByPosition([shp EXCEPT ![j] = ts[j]], ts, ax, j + 1)

\* lines 54-55: for s, axis in zip(transformed_shape, axes): shape[axis] = s
RECURSIVE Overwrite(_, _, _, _)
Overwrite(shp, ts, ax, j) ==
    IF j > Min(Len(ts), Len(ax)) THEN [err |-> "none", shape |-> shp]
    ELSE IF ~IndexInRange(ax[j], Len(shp))
         THEN [err |-> "IndexError", shape |-> shp]
         ELSE Overwrite([shp EXCEPT ![NormIndex(ax[j], Len(shp)) + 1] = ts[j]],
                        ts, ax, j + 1)

\* lines 49-56: the full output shape and the axes handed on
FullOutputShape(c) ==
    IF c.shape = None
    THEN [err |-> "none", shape |-> c.ashape, axes |-> c.axes]
    ELSE LET ax == IF c.axes.kind = "none"
                   THEN [kind |-> "tuple", val |-> Range(Len(c.ashape))]
                   ELSE c.axes
             r == Overwrite(c.ashape, c.shape[1], ax.val, 1)
         IN  [err |-> r.err, shape |-> r.shape, axes |-> ax]

\* the axis selection _get_cufft_plan_nd resolves: all axes when omitted
Selection(axes, ndim) == IF axes.kind = "none" THEN Range(ndim) ELSE axes.val

\* the resolved selection is a contiguous run of 1 to MaxPlanAxes distinct
\* axes that includes axis 0 or axis ndim-1
AxisRunOK(sel, ndim) ==
    /\ \A j \in 1..Len(sel) : IndexInRange(sel[j], ndim)
    /\ LET norm == [j \in 1..Len(sel) |-> NormIndex(sel[j], ndim)]
           S == {norm[j] : j \in 1..Len(sel)}
       IN  /\ Cardinality(S) = Len(sel)
           /\ Len(sel) >= 1
           /\ Len(sel) <= MaxPlanAxes
           /\ \A a \in S : \A b \in S : \A k \in a..b : k \in S
           /\ (0 \in S \/ (ndim - 1) \in S)

NoPlan == [full_output_shape |-> <<>>, axes |-> {}, layout |-> "none",
           fft_kind |-> "none"]

\* line 58, _get_cufft_plan_nd(shape, fft_type, axes, order): the adjacency
\* check, then the engine's plan
GetCufftPlanNd(shape, fft_type, axes, order) ==
    LET sel == Selection(axes, Len(shape))
    IN  IF ~AxisRunOK(sel, Len(shape))
        THEN [err |-> "UnsupportedAxisLayout", planned |-> 0, plan |-> NoPlan]
        ELSE [err |-> "none", planned |-> 1,
              plan |-> [full_output_shape |-> shape,
                        axes |-> {NormIndex(sel[j], Len(shape)) :
                                     j \in 1..Len(sel)},
                        layout |-> order, fft_kind |-> fft_type]]

PlanRaise(err) ==
    [err |-> err, handed |-> FALSE, handed_shape |-> <<>>, planned |-> 0,
     plan |-> NoPlan]

\* lines 27-60
GetFftPlanResult(c) ==
    LET v == PlanValidation(c)
        s == FullOutputShape(c)
    IN  IF v # "none" THEN PlanRaise(v)
        ELSE IF s.err # "none" THEN PlanRaise(s.err)
        ELSE LET p == GetCufftPlanNd(s.shape,
                          ConvertFftType(c.dtype, c.value_type), s.axes, Order(c))
             IN  [err |-> p.err, handed |-> TRUE, handed_shape |-> s.shape,
                  planned |-> p.planned, plan |-> p.plan]

\* ------------------------------------------------------------ calls
ArrShape(d) == [i \in 1..d |-> 2 * i + 1]
ShapePrefix(l) == [i \in 1..l |-> 2 * i + 6]

AxesArgs(d) ==
    {[kind |-> "none", val |-> <<>>]}
        \cup {[kind |-> "int", val |-> <<k>>] : k \in (-d)..d}
        \cup {[kind |-> "tuple", val |-> t] :
                 t \in UNION {[1..l -> (-d)..d] : l \in 0..MaxAxesLen}}

\* shape omitted, or as long as the selection, or one shorter or longer
ShapeArgs(d, ax) ==
    LET base == IF ax.kind = "none" THEN d ELSE Len(ax.val)
    IN  {None} \cup {Some(ShapePrefix(l)) :
                        l \in {base - 1, base, base + 1} \cap Nat}

\* a 1-D contiguous array is both row- and column-major
Layouts(d) ==
    IF d = 1 THEN {<<TRUE, TRUE>>, <<FALSE, FALSE>>}
    ELSE {<<TRUE, FALSE>>, <<FALSE, TRUE>>, <<FALSE, FALSE>>}

PlanCall(d, lay, dt, vt, sh, ax) ==
    [op |-> "get_fft_plan", ashape |-> ArrShape(d), c_contiguous |-> lay[1],
     f_contiguous |-> lay[2], dtype |-> dt, value_type |-> vt, shape |-> sh,
     axes |-> ax]

\* the transformed axis has length xlen, every other axis OtherDim
LaneShape(r, a, xlen) ==
    LET pos == IF IndexInRange(a, r) THEN NormIndex(a, r) + 1 ELSE 1
    IN  [i \in 1..r |-> IF i = pos THEN xlen ELSE OtherDim]

NArgs == {None} \cup {Some(k) : k \in (-MaxNeg)..MaxN}

RfftCall(r, a, xlen, nn) ==
    [op |-> "rfft", xshape |-> LaneShape(r, a, xlen), x |-> NoLane, n |-> nn,
     axis |-> a, dtype |-> "float64"]

IrfftCall(r, a, x, nn, dt) ==
    [op |-> "irfft", xshape |-> LaneShape(r, a, Len(x)), x |-> x, n |-> nn,
     axis |-> a, dtype |-> dt]

NoRet == [err |-> "pending"]

\* ---------------------------------------------------------- actions
GetFftPlan ==
    /\ pc = "call"
    /\ call.op = "get_fft_plan"
    /\ ret' = GetFftPlanResult(call)
    /\ pc' = "done"
    /\ UNCHANGED <<call, src>>

Rfft ==
    /\ pc = "call"
    /\ call.op = "rfft"
    /\ LET r == RfftResolve(call)
       IN  IF r.err # "none"
           THEN ret' = CodecRaise(r.err, 0, FALSE, call.xshape, NoLane, <<>>)
           ELSE IF EngineRejectsLength(r.n)
           THEN ret' = CodecRaise("InvalidLength", 1, FALSE, r.shape, NoLane, <<>>)
           ELSE \E f \in HalfSpectra(r.n \div 2 + 1) : \E junk \in JunkVals :
                    ret' = RfftPack(r.n, r.shape, f, junk)
    /\ pc' = "done"
    /\ UNCHANGED <<call, src>>

Irfft ==
    /\ pc = "call"
    /\ call.op = "irfft"
    /\ LET r == IrfftResolve(call)
       IN  IF r.err # "none"
           THEN ret' = CodecRaise(r.err, 0, FALSE, call.xshape, NoLane, <<>>)
           ELSE ret' = IrfftBuild(call.x, r.n, r.m, r.shape, call.dtype)
    /\ pc' = "done"
    /\ UNCHANGED <<call, src>>

\* the round trip: the packed output of rfft is decoded with n its length
IrfftOfRfft ==
    /\ pc = "done"
    /\ call.op = "rfft"
    /\ ret.err = "none"
    /\ call' = [op |-> "irfft", xshape |-> ret.shape, x |-> ret.z,
                n |-> Some(Len(ret.z)), axis |-> call.axis, dtype |-> call.dtype]
    /\ src' = ret.f
    /\ ret' = NoRet
    /\ pc' = "call"

InitPlan ==
    /\ \E d \in 1..MaxNdim : \E ax \in AxesArgs(d) : \E sh \in ShapeArgs(d, ax) :
       \E lay \in Layouts(d) : \E dt \in {"complex64", "complex128"} :
       \E vt \in {"C2C", "R2C"} :
           call = PlanCall(d, lay, dt, vt, sh, ax)
    /\ ret = NoRet
    /\ pc = "call"
    /\ src = NoLane

InitRfft ==
    /\ \E r \in 1..MaxRank : \E a \in (-(r + 1))..r : \E xlen \in 1..MaxLen :
       \E nn \in NArgs :
           call = RfftCall(r, a, xlen, nn)
    /\ ret = NoRet
    /\ pc = "call"
    /\ src = NoLane

InitIrfft ==
    /\ \E r \in 1..MaxRank : \E a \in (-(r + 1))..r : \E xlen \in 1..MaxLen :
       \E x \in [1..xlen -> XVals] : \E nn \in NArgs : \E dt \in DTypes :
           call = IrfftCall(r, a, x, nn, dt)
    /\ ret = NoRet
    /\ pc = "call"
    /\ src = NoLane

InitCodec == InitRfft \/ InitIrfft

Init == InitPlan \/ InitCodec

NextPlan == GetFftPlan
NextCodec == Rfft \/ Irfft \/ IrfftOfRfft
Next == GetFftPlan \/ Rfft \/ Irfft \/ IrfftOfRfft

SpecPlan == InitPlan /\ [][NextPlan]_vars
SpecCodec == InitCodec /\ [][NextCodec]_vars
Spec == Init /\ [][Next]_vars

\* ------------------------------------------------- codec properties
Done(name) == pc = "done" /\ call.op = name

AxisValid == IndexInRange(call.axis, Len(call.xshape))

AxisPos == NormIndex(call.axis, Len(call.xshape)) + 1

\* length of the input along the transform axis
XLen == call.xshape[AxisPos]

\* the requested length: n, or the input's length when n is omitted
ReqN == IF call.n = None THEN XLen ELSE call.n[1]

\* the shape is the input's except for len on the transform axis
ShapeWith(len) ==
    /\ Len(ret.shape) = Len(call.xshape)
    /\ \A i \in 1..Len(call.xshape) :
           ret.shape[i] = IF i = AxisPos THEN len ELSE call.xshape[i]

\* C1: for n >= 1 rfft returns a real array of length n along the axis,
\* each slot written exactly once: z[0] = Re f[0], z[i] = Re f[(i+1)/2] for
\* odd i, z[i] = Im f[i/2] for even i >= 2; Im f[0] and, for even n,
\* Im f[n/2] are never copied.
C1_RfftPackedLayout ==
    (Done("rfft") /\ AxisValid /\ ReqN >= 1) =>
        /\ ret.err = "none"
        /\ Len(ret.f) = ReqN \div 2 + 1
        /\ Len(ret.z) = ReqN
        /\ ShapeWith(ReqN)
        /\ \A i \in 0..(ReqN - 1) :
               /\ ret.writes[i + 1] = 1
               /\ ret.z[i + 1] = IF i = 0 THEN ret.f[1].re
                                 ELSE IF i % 2 = 1 THEN ret.f[(i + 1) \div 2 + 1].re
                                 ELSE ret.f[i \div 2 + 1].im
        /\ ret.z[ReqN] = IF ReqN = 1 THEN ret.f[1].re
                         ELSE IF ReqN % 2 = 0 THEN ret.f[ReqN \div 2 + 1].re
                         ELSE ret.f[(ReqN - 1) \div 2 + 1].im
        /\ <<"im", 0>> \notin ret.reads
        /\ (ReqN % 2 = 0 => <<"im", ReqN \div 2>> \notin ret.reads)

\* an even n whose Nyquist bin has a non-zero imaginary part, packed
C1_Witness ==
    /\ Done("rfft") /\ AxisValid /\ ReqN = 4 /\ ret.err = "none"
    /\ ret.f[3].im = 3 /\ ret.f[1].im = 3
    /\ ret.z = <<ret.f[1].re, ret.f[2].re, ret.f[2].im, ret.f[3].re>>

\* C2: for n >= 1 and m = min(n, L) irfft hands the engine z of length
\* n//2+1 with Re z[0] = x[0], Im z[0] = 0, Re z[k] = x[2k-1] for
\* 1 <= k <= m//2, Im z[k] = x[2k] for 1 <= k <= (m+1)//2 - 1, every other
\* component 0; x[i] with i >= m is never read.
C2_IrfftSpectrumLayout ==
    (Done("irfft") /\ AxisValid /\ ReqN >= 1) =>
        LET m == IF ReqN < XLen THEN ReqN ELSE XLen
        IN  /\ ret.err = "none"
            /\ ret.engine = 1
            /\ Len(ret.z) = ReqN \div 2 + 1
            /\ ShapeWith(ReqN \div 2 + 1)
            /\ \A k \in 0..(ReqN \div 2) :
                   /\ ret.z[k + 1].re =
                          IF k = 0 THEN call.x[1]
                          ELSE IF k <= m \div 2 THEN call.x[2 * k - 1 + 1]
                          ELSE 0
                   /\ ret.z[k + 1].im =
                          IF 1 <= k /\ k <= (m + 1) \div 2 - 1
                          THEN call.x[2 * k + 1]
                          ELSE 0
            /\ \A i \in ret.reads : i < m

\* a packed input longer than n, truncated
C2_Witness ==
    /\ Done("irfft") /\ AxisValid /\ ret.err = "none"
    /\ XLen = 4 /\ ReqN = 3 /\ src = NoLane
    /\ ret.z = <<[re |-> call.x[1], im |-> 0], [re |-> call.x[2], im |-> call.x[3]]>>
    /\ 3 \notin ret.reads

\* C3: for a half spectrum f of length n//2+1 with Im f[0] = 0 and, for
\* even n, Im f[n/2] = 0, the array irfft builds from rfft's packed output
\* equals f element for element.
C3_RoundTrip ==
    (Done("irfft") /\ src # NoLane) =>
        LET n == Len(call.x)
        IN  (src[1].im = 0 /\ (n % 2 = 0 => src[n \div 2 + 1].im = 0)) =>
                /\ ret.err = "none"
                /\ ret.engine = 1
                /\ ret.z = src

\* a round trip of an even and of an odd length with non-zero content
C3_Witness ==
    /\ Done("irfft") /\ src # NoLane /\ ret.err = "none"
    /\ Len(call.x) = 4 /\ Len(src) = 3
    /\ src[1].im = 0 /\ src[3].im = 0 /\ src[2].im = 3
    /\ ret.z = src

\* C8: irfft with n > L >= 1 does not raise: each slice assignment has a
\* destination range as long as its source range, inside z, and the real
\* part of every bin above L//2 and the imaginary part of every bin above
\* (L+1)//2 - 1 is zero when the engine is invoked.
C8_IrfftZeroFill ==
    (Done("irfft") /\ AxisValid /\ ReqN > XLen) =>
        /\ ret.err = "none"
        /\ ret.engine = 1
        /\ Len(ret.z) = ReqN \div 2 + 1
        /\ ret.lens = <<<<1, 1>>, <<XLen \div 2, XLen \div 2>>,
                        <<(XLen + 1) \div 2 - 1, (XLen + 1) \div 2 - 1>>>>
        /\ \A k \in 0..(ReqN \div 2) :
               /\ (k > XLen \div 2 => ret.z[k + 1].re = 0)
               /\ (k > (XLen + 1) \div 2 - 1 => ret.z[k + 1].im = 0)

\* n = 5 on a packed input of length 4: bin 2 has no imaginary part
C8_Witness ==
    /\ Done("irfft") /\ AxisValid /\ ret.err = "none" /\ ret.engine = 1
    /\ XLen = 4 /\ ReqN = 5
    /\ ret.z[3] = [re |-> call.x[4], im |-> 0]
    /\ ret.z[2] = [re |-> call.x[2], im |-> call.x[3]]

\* C9: every validation error is raised before any call into the engine:
\* in the codec an out-of-range axis and n <= 0 fail with the transform not
\* invoked and no array built; get_fft_plan rejects without the engine's
\* plan step invoked.
C9_ValidationBeforeEngine ==
    /\ ((Done("rfft") \/ Done("irfft")) /\ ~AxisValid) =>
           (ret.err = "AxisOutOfRange" /\ ret.engine = 0 /\ ~ret.built)
    /\ ((Done("rfft") \/ Done("irfft")) /\ AxisValid /\ ReqN <= 0) =>
           (ret.err # "none" /\ ret.engine = 0 /\ ~ret.built)
    /\ (Done("get_fft_plan") /\ ret.err # "none") => ret.planned = 0

\* -------------------------------------------------- plan properties
Ndim == Len(call.ashape)

KindOK == call.value_type = "C2C"

Contiguous == call.c_contiguous \/ call.f_contiguous

AxesIsSeq == call.axes.kind = "tuple"

AxesOmitted == call.axes.kind = "none"

\* the axes the call names, in order: every axis when omitted
Named == IF AxesOmitted THEN [i \in 1..Ndim |-> i - 1] ELSE call.axes.val

NamedInRange == \A j \in 1..Len(Named) : -Ndim <= Named[j] /\ Named[j] < Ndim

Pos(j) == IF Named[j] < 0 THEN Named[j] + Ndim ELSE Named[j]

\* (3)/(4): shape given with a length other than that of the axes
LengthMismatch ==
    /\ call.shape # None
    /\ \/ AxesIsSeq /\ Len(call.shape[1]) # Len(call.axes.val)
       \/ AxesOmitted /\ Len(call.shape[1]) # Ndim

\* (5): shape omitted and more axes than dimensions
AxesExceedNdim == call.shape = None /\ AxesIsSeq /\ Len(call.axes.val) > Ndim

\* a run lo..hi of 1 to 3 axes touching axis 0 or axis ndim-1, each named once
ContiguousRun ==
    /\ NamedInRange
    /\ \E lo \in 0..(Ndim - 1) : \E hi \in lo..(Ndim - 1) :
           /\ hi - lo + 1 = Len(Named)
           /\ hi - lo + 1 <= 3
           /\ (lo = 0 \/ hi = Ndim - 1)
           /\ \A p \in lo..hi : \E j \in 1..Len(Named) : Pos(j) = p
           /\ \A j \in 1..Len(Named) : Pos(j) \in lo..hi

Accepted == ret.err = "none" /\ ret.planned = 1

\* C4: the full output shape handed to the planning step has the array's
\* number of dimensions and is the array's shape with the entry at each
\* axes[j] replaced by shape[j] (an axis named again is replaced again);
\* axes not named keep the array's length; with shape omitted it is the
\* array's shape; shape=(8,), axes=(1,) on 3x5x7 gives (3,8,7).
C4_FullOutputShape ==
    (Done("get_fft_plan") /\ ret.handed) =>
        /\ Len(ret.handed_shape) = Ndim
        /\ call.shape = None => ret.handed_shape = call.ashape
        /\ call.shape # None =>
               \A p \in 0..(Ndim - 1) :
                   LET J == {j \in 1..Len(Named) : Pos(j) = p}
                   IN  ret.handed_shape[p + 1] =
                           IF J = {} THEN call.ashape[p + 1]
                           ELSE call.shape[1][CHOOSE j \in J : \A k \in J : k <= j]
        /\ (call.ashape = <<3, 5, 7>> /\ call.shape = Some(<<8>>)
                /\ call.axes = [kind |-> "tuple", val |-> <<1>>]) =>
               ret.handed_shape = <<3, 8, 7>>

\* shape=(8,), axes=(1,) on a 3x5x7 array reaches the planning step
C4_Witness ==
    /\ Done("get_fft_plan") /\ ret.handed
    /\ call.ashape = <<3, 5, 7>> /\ call.shape = Some(<<8>>)
    /\ call.axes = [kind |-> "tuple", val |-> <<1>>]
    /\ ret.handed_shape = <<3, 8, 7>>

\* C5: with the earlier validations passed, an axis selection (a sequence,
\* or omitted meaning all axes) is accepted iff after normalising negative
\* indices it is a contiguous run of 1 to 3 axes including axis 0 or axis
\* ndim-1; any other set of axes fails with UnsupportedAxisLayout and no
\* plan.  On a 4-D array [1,2] is rejected, [0,1] and [2,3] accepted.
C5_AxisAdjacency ==
    (Done("get_fft_plan") /\ (AxesIsSeq \/ AxesOmitted)) =>
        LET passed == KindOK /\ Contiguous /\ ~LengthMismatch /\ ~AxesExceedNdim
        IN  /\ Accepted => ContiguousRun
            /\ (passed /\ ContiguousRun) => Accepted
            /\ (passed /\ NamedInRange /\ ~ContiguousRun) =>
                   (ret.err = "UnsupportedAxisLayout" /\ ret.planned = 0)
            /\ (Ndim = 4 /\ AxesIsSeq /\ call.axes.val = <<1, 2>>) => ~Accepted
            /\ (Ndim = 4 /\ AxesIsSeq /\ passed
                    /\ call.axes.val \in {<<0, 1>>, <<2, 3>>}) => Accepted

\* on a 4-D array the selection [1,2] passes the length checks and is
\* rejected for its layout
C5_Witness ==
    /\ Done("get_fft_plan") /\ Ndim = 4 /\ AxesIsSeq
    /\ KindOK /\ Contiguous /\ call.shape = Some(<<8, 10>>)
    /\ call.axes.val = <<1, 2>>
    /\ ret.err = "UnsupportedAxisLayout" /\ ret.handed /\ ret.planned = 0

\* C6: a shape given with a length other than that of the axes (both given,
\* or axes omitted and len(shape) # ndim) raises ShapeAxesMismatch once kind
\* and layout are accepted, and never yields a plan.
C6_ShapeAxesMismatch ==
    (Done("get_fft_plan") /\ LengthMismatch) =>
        /\ ret.err # "none"
        /\ ~ret.handed
        /\ ret.planned = 0
        /\ (KindOK /\ Contiguous) => ret.err = "ShapeAxesMismatch"

\* axes omitted and a shape one longer than the array has dimensions
C6_Witness ==
    /\ Done("get_fft_plan") /\ AxesOmitted /\ call.shape # None
    /\ Len(call.shape[1]) = Ndim + 1
    /\ ret.err = "ShapeAxesMismatch"

\* C7: the validations apply in order and the first that fails is the one
\* reported: (1) kind, (2) layout, (3)/(4) shape/axes lengths, (5) too
\* many axes.
C7_ValidationOrder ==
    Done("get_fft_plan") =>
        /\ ~KindOK => ret.err = "UnsupportedTransformKind"
        /\ (KindOK /\ ~Contiguous) => ret.err = "NonContiguousInput"
        /\ (KindOK /\ Contiguous /\ LengthMismatch) =>
               ret.err = "ShapeAxesMismatch"
        /\ (KindOK /\ Contiguous /\ ~LengthMismatch /\ AxesExceedNdim) =>
               ret.err = "TooManyAxes"
        /\ ret.err = "UnsupportedTransformKind" => ~KindOK
        /\ ret.err = "NonContiguousInput" => ~Contiguous
        /\ ret.err = "ShapeAxesMismatch" => LengthMismatch
        /\ ret.err = "TooManyAxes" => AxesExceedNdim
        /\ ret.err \in {"UnsupportedTransformKind", "NonContiguousInput",
                        "ShapeAxesMismatch", "TooManyAxes"} => ~ret.handed

\* an unsupported kind on a non-contiguous array with mismatched lengths
C7_Witness ==
    /\ Done("get_fft_plan") /\ ~KindOK /\ ~Contiguous /\ LengthMismatch
    /\ ret.err = "UnsupportedTransformKind"

\* C10: a single int axis k is the one-axis selection (k): with shape
\* omitted or a one-element shape it reaches the planning step with no
\* error from the shape/axes length checks.
C10_IntAxisAccepted ==
    (Done("get_fft_plan") /\ call.axes.kind = "int" /\ KindOK /\ Contiguous
        /\ NamedInRange
        /\ (call.shape = None \/ Len(call.shape[1]) = 1)) =>
        (ret.handed /\ ret.err \notin {"TypeError", "ShapeAxesMismatch",
                                       "TooManyAxes"})

====
